---- MODULE Spec2Model ----
(***************************************************************************)
(* A model of the retry loops, the pagination loop, the IMAP scanner and   *)
(* the MIME body selection of the plugins repository.                      *)
(*                                                                         *)
(* Each subsystem of the repository is an independent script, so each has  *)
(* its own group of variables and its own specification; the variables of  *)
(* the other groups stay at their initial values.                          *)
(*                                                                         *)
(* Python's None is the empty tuple and a present value x is <<x>>, so an  *)
(* optional value is a sequence of length at most one.                     *)
(***************************************************************************)
EXTENDS Integers, Sequences, FiniteSets, TLC

VARIABLES
    \* ---- bitrix/core.py: the Bitrix24 server and get_all_pages
    pages,          \* the listing held by the server: a sequence of pages
    gp_pc,          \* get_all_pages: "loop" inside while True, "done" returned, "raised"
    gp_start,       \* get_all_pages: local start
    gp_data,        \* get_all_pages: local data
    gp_ret,         \* get_all_pages: the returned value (None until it returns)
    gp_failed,      \* whether some page request of this call failed after its retries
    b24_log,        \* the POSTs and sleeps of the latest _b24_request call
    b24_ret,        \* what the latest _b24_request call returned
    b24_raised,     \* whether the latest _b24_request call raised instead
    b24_served      \* the JSON the server had for the latest _b24_request call

bitrixVars == <<pages, gp_pc, gp_start, gp_data, gp_ret, gp_failed,
                b24_log, b24_ret, b24_raised, b24_served>>

VARIABLES
    \* ---- mail_scan/core.py: one YandexMailScanner and the code calling it
    imap_client,    \* self.imap_client: None or the IMAP4_SSL object
    last_activity,  \* self.last_activity: None, or whether the time stamp lies
                    \* within keepalive_interval of the current time ("fresh") or
                    \* further back ("stale")
    last_date,      \* self.last_date
    sc_stack,       \* the frames of the scanner's methods being executed
    sc_result,      \* what the method that returned last returned or raised
    with_state,     \* the with-block around the scanner: outside, inside, exited
    scan_args,      \* the arguments of the scan_messages call being executed
    searches        \* the imap_client.search calls of that scan_messages call

scannerVars == <<imap_client, last_activity, last_date, sc_stack, sc_result,
                 with_state, scan_args, searches>>

VARIABLES
    \* ---- google_auth/core.py: one call of a function decorated with
    \* retry_on_network_error
    rt_max,             \* the decorator's max_retries
    rt_script,          \* what the decorated function does on each of its calls
    rt_pc,              \* wrapper: "loop" inside the for loop, "done" after it
    rt_attempt,         \* wrapper: attempt
    rt_delay,           \* wrapper: delay
    rt_last_exception,  \* wrapper: last_exception
    rt_calls,           \* the calls of the decorated function so far
    rt_slept,           \* the time.sleep calls so far
    rt_result           \* what wrapper returned or raised

retryVars == <<rt_max, rt_script, rt_pc, rt_attempt, rt_delay, rt_last_exception,
               rt_calls, rt_slept, rt_result>>

VARIABLES
    \* ---- mail_scan/utilities.py: one message
    pm_msg,         \* parse_email_message: the headers of the message
    pm_filter,      \* parse_email_message: date_filter
    pm_result,      \* parse_email_message: what it returned or raised
    bm_msg,         \* _return_body_mail: the message
    bm_result,      \* _return_body_mail: the body and the attachments it found
    aa_filename,    \* _is_allowed_attachment: filename
    aa_content_type,\* _is_allowed_attachment: content_type
    aa_result,      \* _is_allowed_attachment: what it returned
    eb_body,        \* extract_email_body_universal_mode: the lines of email_body
    eb_result       \* extract_email_body_universal_mode: the lines of the body it returned

parseVars == <<pm_msg, pm_filter, pm_result>>
bodyVars == <<bm_msg, bm_result>>
allowedVars == <<aa_filename, aa_content_type, aa_result>>
extractVars == <<eb_body, eb_result>>
mailVars == <<parseVars, bodyVars, allowedVars, extractVars>>

VARIABLES
    \* ---- bitrix/explorer.py: BitrixEntity.find and the cache of the status lists
    fd_limit,       \* find: limit
    fd_pc,          \* find: "idle" not called, "pages" inside get_all_pages, "done"
    fd_ret,         \* find: the data of the ResultSet it returned
    _cache,         \* the module's _cache: a function from the cached keys
    status_lists,   \* the status list the server holds for each ENTITY_ID
    ex_loads,       \* for each key, the runs of its loader since the last clear_cache
    ex_first,       \* for each key, the value of its first load since then
    ex_call         \* the latest call of types, stages or statuses

VARIABLES
    \* ---- gemini/core.py: one call of Gemini.generate_content
    gm_max,         \* self.max_attempts
    gm_json_return, \* self.json_return
    gm_pc,          \* "loop" inside the for loop, "done" returned
    gm_attempt,     \* attempt
    gm_calls,       \* the calls of client.models.generate_content so far
    gm_last,        \* what the latest of those calls did
    gm_slept,       \* the time.sleep calls so far
    gm_result       \* the dict that generate_content returned

geminiVars == <<gm_max, gm_json_return, gm_pc, gm_attempt, gm_calls, gm_last,
                gm_slept, gm_result>>

findVars == <<fd_limit, fd_pc, fd_ret>>
cacheVars == <<_cache, status_lists, ex_loads, ex_first, ex_call>>
explorerVars == <<findVars, cacheVars>>

VARIABLES
    \* ---- google_auth/core.py: the services of one GoogleAccountOAuth
    ga_services,    \* self._services
    ga_open,        \* the services built and not closed since
    ga_next,        \* the number of services built so far
    ga_with,        \* the with-block: "outside", "inside", "exited"
    ga_last,        \* the latest operation on the object
    ga_closes       \* the close() calls of the latest close_all_services

googleVars == <<ga_services, ga_open, ga_next, ga_with, ga_last, ga_closes>>

VARIABLES
    \* ---- send_msg_mode/core.py: one run of sending_main
    sm_targets,     \* len(config["TARGET_EMAILS"]); the targets are 1..sm_targets
    sm_doc_id,      \* config["DOC_ID"]
    sm_pc,          \* sending_main: "loop", "done" returned, "raised"
    sm_ind,         \* sending_main: ind
    sm_attempts     \* the calls of send_tracked_email so far, and what each did

sendVars == <<sm_targets, sm_doc_id, sm_pc, sm_ind, sm_attempts>>

vars == <<bitrixVars, scannerVars, retryVars, mailVars, explorerVars, geminiVars, googleVars, sendVars>>

OthersThanGoogle == <<bitrixVars, scannerVars, retryVars, mailVars, explorerVars, geminiVars, sendVars>>
OthersThanSend == <<bitrixVars, scannerVars, retryVars, mailVars, explorerVars, geminiVars, googleVars>>
OthersThanBitrix == <<scannerVars, retryVars, mailVars, explorerVars, geminiVars, googleVars, sendVars>>
OthersThanScanner == <<bitrixVars, retryVars, mailVars, explorerVars, geminiVars, googleVars, sendVars>>
OthersThanRetry == <<bitrixVars, scannerVars, mailVars, explorerVars, geminiVars, googleVars, sendVars>>
OthersThanMail == <<bitrixVars, scannerVars, retryVars, explorerVars, geminiVars, googleVars, sendVars>>
OthersThanFind == <<cacheVars, scannerVars, retryVars, mailVars, geminiVars, googleVars, sendVars>>
OthersThanGemini == <<bitrixVars, scannerVars, retryVars, mailVars, explorerVars, googleVars, sendVars>>
OthersThanCache == <<findVars, bitrixVars, scannerVars, retryVars, mailVars, geminiVars, googleVars, sendVars>>

None == <<>>
Some(x) == <<x>>
IsNone(o) == o = <<>>
Truthy(o) == o # <<>>

RECURSIVE Concat(_)
Concat(ss) == IF ss = <<>> THEN <<>> ELSE Head(ss) \o Concat(Tail(ss))

(***************************************************************************)
(* bitrix/core.py                                                          *)
(***************************************************************************)

\* Bounds of the modelled server.
MaxPages == 3
MaxPageLen == 2

\* while count < 3
B24MaxCount == 3
\* time.sleep(2) of the RequestException handler
B24RetrySleep == 2

\* What one requests.post(...); raise_for_status(); json() can do:
\* answer with the JSON of the page, or raise.  ConnectionError, HTTPError and
\* Timeout are requests.exceptions.RequestException; ValueError is not.
RequestExceptions == {"ConnectionError", "HTTPError", "Timeout"}
OtherExceptions == {"ValueError"}
PostOutcomes == {"ok", "HTTPError", "ConnectionError", "ValueError"}

\* The listings: page p holds the items numbered after those of the pages before.
RECURSIVE Number(_, _)
Number(sizes, from) ==
    IF sizes = <<>> THEN <<>>
    ELSE <<[i \in 1..Head(sizes) |-> from + i]>>
         \o Number(Tail(sizes), from + Head(sizes))

Listings ==
    UNION { { Number(sizes, 0) : sizes \in [1..n -> 0..MaxPageLen] } : n \in 1..MaxPages }

\* The server's JSON for start = s: the items of page s and, except on the last
\* page, the start of the next one.  A dict is a function from its keys.
ServerJson(listing, s) ==
    IF s + 1 < Len(listing)
    THEN [result |-> listing[s + 1], next |-> s + 1]
    ELSE [result |-> listing[s + 1]]

\* dict.get(key)
Get(d, key) == IF key \in DOMAIN d THEN Some(d[key]) ELSE None

\* A variant of B24Handler without the except Exception clause.
B24HandlerRequestOnly(exc) ==
    IF exc \in RequestExceptions THEN "RequestException" ELSE "propagate"

\* The except clause that handles an exception raised inside the try.
B24Handler(exc) ==
    IF exc \in RequestExceptions THEN "RequestException"
    ELSE IF exc \in OtherExceptions THEN "Exception"
    ELSE "propagate"

\* A variant of B24Wait that backs off: both handlers sleep, longer each time.
B24WaitBackoff(handler, count) == Some(B24RetrySleep * (count + 1))

\* The wait of a handler before the next attempt: the RequestException handler
\* sleeps, the other one does not.
B24Wait(handler, count) ==
    IF handler = "RequestException" THEN Some(B24RetrySleep) ELSE None

\* _b24_request from the state (count, log): outcomes[i] is what the i-th POST
\* of the call does, json what the server answers.
RECURSIVE B24Loop(_, _, _, _)
B24Loop(count, log, outcomes, json) ==
    IF ~(count < B24MaxCount)
    THEN [ret |-> None, raised |-> FALSE, log |-> log]
    ELSE LET o == outcomes[Len(SelectSeq(log, LAMBDA e : e.ev = "post")) + 1]
             posted == Append(log, [ev |-> "post", outcome |-> o, secs |-> 0])
         IN  IF o = "ok"
             THEN [ret |-> Some(json), raised |-> FALSE, log |-> posted]
             ELSE IF B24Handler(o) = "propagate"
             THEN [ret |-> None, raised |-> TRUE, log |-> posted]
             ELSE LET w == B24Wait(B24Handler(o), count)
                  IN  B24Loop(count + 1,
                              IF Truthy(w)
                              THEN Append(posted, [ev |-> "sleep", outcome |-> o, secs |-> w[1]])
                              ELSE posted,
                              outcomes, json)

_b24_request(outcomes, json) == B24Loop(0, <<>>, outcomes, json)

\* query_to_bitrix(..., raw_result=True) on what _b24_request returned.
query_to_bitrix_raw(result) ==
    IF Truthy(result) /\ Truthy(Get(result[1], "result")) /\ Get(result[1], "result")[1] # <<>>
    THEN result
    ELSE None

BitrixInit ==
    /\ pages \in Listings
    /\ gp_pc = "loop"
    /\ gp_start = 0
    /\ gp_data = <<>>
    /\ gp_ret = None
    /\ gp_failed = FALSE
    /\ b24_log = <<>>
    /\ b24_ret = None
    /\ b24_raised = FALSE
    /\ b24_served = None

\* One pass of the while True loop of get_all_pages.
GetAllPagesStep ==
    /\ gp_pc = "loop"
    /\ \E outcomes \in [1..B24MaxCount -> PostOutcomes] :
         LET json == ServerJson(pages, gp_start)
             req == _b24_request(outcomes, json)
             result == query_to_bitrix_raw(req.ret)
         IN  /\ b24_log' = req.log
             /\ b24_ret' = req.ret
             /\ b24_raised' = req.raised
             /\ b24_served' = Some(json)
             /\ gp_failed' = (gp_failed \/ IsNone(req.ret))
             /\ IF req.raised
                THEN /\ gp_pc' = "raised"
                     /\ UNCHANGED <<gp_start, gp_data, gp_ret>>
                ELSE IF IsNone(result) \/ "result" \notin DOMAIN result[1]
                THEN /\ gp_pc' = "done"
                     /\ gp_ret' = Some(gp_data)
                     /\ UNCHANGED <<gp_start, gp_data>>
                ELSE LET items == result[1].result
                         next_start == Get(result[1], "next")
                     IN  /\ gp_data' = gp_data \o items
                         /\ IF IsNone(next_start) \/ next_start[1] = 0 \/ items = <<>>
                            THEN /\ gp_pc' = "done"
                                 /\ gp_ret' = Some(gp_data \o items)
                                 /\ UNCHANGED gp_start
                            ELSE /\ gp_start' = next_start[1]
                                 /\ UNCHANGED <<gp_pc, gp_ret>>
    /\ UNCHANGED <<pages, OthersThanBitrix>>

BitrixIdle ==
    /\ pages = <<>>
    /\ gp_pc = "done"
    /\ gp_start = 0
    /\ gp_data = <<>>
    /\ gp_ret = None
    /\ gp_failed = FALSE
    /\ b24_log = <<>>
    /\ b24_ret = None
    /\ b24_raised = FALSE
    /\ b24_served = None

(***************************************************************************)
(* bitrix/explorer.py: BitrixEntity.find                                   *)
(***************************************************************************)

\* Bound: the limits find is called with.
MaxLimit == 3

\* query_to_bitrix(...) with raw_result=False on what _b24_request returned.
query_to_bitrix(result) ==
    IF Truthy(result) /\ Truthy(Get(result[1], "result")) /\ Get(result[1], "result")[1] # <<>>
    THEN Some(result[1].result)
    ELSE None

\* result[:limit]
Slice(seq, limit) == SubSeq(seq, 1, IF limit < Len(seq) THEN limit ELSE Len(seq))

FindInit ==
    /\ pages \in Listings
    /\ fd_limit \in {None} \cup { Some(n) : n \in 0..MaxLimit }
    /\ fd_pc = "idle"
    /\ fd_ret = None
    /\ gp_pc = "done"
    /\ gp_start = 0
    /\ gp_data = <<>>
    /\ gp_ret = None
    /\ gp_failed = FALSE
    /\ b24_log = <<>>
    /\ b24_ret = None
    /\ b24_raised = FALSE
    /\ b24_served = None

\* find with a limit: one query for start = 0, cut to the limit.
FindLimited ==
    /\ fd_pc = "idle"
    /\ Truthy(fd_limit) /\ fd_limit[1] # 0
    /\ \E outcomes \in [1..B24MaxCount -> PostOutcomes] :
         LET json == ServerJson(pages, 0)
             req == _b24_request(outcomes, json)
             result == query_to_bitrix(req.ret)
         IN  /\ b24_log' = req.log
             /\ b24_ret' = req.ret
             /\ b24_raised' = req.raised
             /\ b24_served' = Some(json)
             /\ fd_pc' = "done"
             /\ fd_ret' = Some(IF Truthy(result) /\ result[1] # <<>>
                               THEN Slice(result[1], fd_limit[1]) ELSE <<>>)
    /\ UNCHANGED <<pages, fd_limit, gp_pc, gp_start, gp_data, gp_ret, gp_failed,
                   OthersThanFind>>

\* find without a limit (None or 0): the call of get_all_pages.
FindAllPages ==
    /\ fd_pc = "idle"
    /\ ~(Truthy(fd_limit) /\ fd_limit[1] # 0)
    /\ fd_pc' = "pages"
    /\ gp_pc' = "loop"
    /\ gp_start' = 0
    /\ gp_data' = <<>>
    /\ UNCHANGED <<pages, fd_limit, fd_ret, gp_ret, gp_failed,
                   b24_log, b24_ret, b24_raised, b24_served, OthersThanFind>>

\* data = get_all_pages(cls.LIST_METHOD, params) or []
FindReturn ==
    /\ fd_pc = "pages"
    /\ gp_pc = "done"
    /\ fd_pc' = "done"
    /\ fd_ret' = gp_ret
    /\ UNCHANGED <<fd_limit, bitrixVars, OthersThanFind>>

FindIdle ==
    /\ fd_limit = None
    /\ fd_pc = "idle"
    /\ fd_ret = None

NextFind == FindLimited \/ FindAllPages \/ GetAllPagesStep \/ FindReturn

(***************************************************************************)
(* bitrix/explorer.py: _get_cached, clear_cache and the cached status      *)
(* lists                                                                   *)
(***************************************************************************)

\* Bound: the runs of a loader that are counted.
MaxLoads == 2

\* The keys of Companies.types(), Deals.stages(0), Deals.stages(1) and
\* Leads.statuses().
CacheKeys == {"company_types", "deal_stages_0", "deal_stages_1", "lead_statuses"}
EntityIds == {"COMPANY_TYPE", "DEAL_STAGE", "DEAL_STAGE_1", "STATUS"}

\* The status lists the server can hold for an ENTITY_ID.
StatusLists ==
    {<<>>,
     <<[NAME |-> "New", STATUS_ID |-> "N"]>>,
     <<[NAME |-> "New", STATUS_ID |-> "N"], [NAME |-> "Won", STATUS_ID |-> "W"]>>}

\* The ENTITY_IDs the loader of a key asks for, the second one only when the
\* first query gave nothing.
LoaderQueries(key) ==
    CASE key = "company_types" -> <<"COMPANY_TYPE">>
      [] key = "deal_stages_0" -> <<"DEAL_STAGE", "DEAL_STAGE">>
      [] key = "deal_stages_1" -> <<"DEAL_STAGE_1", "DEAL_STAGE">>
      [] key = "lead_statuses" -> <<"STATUS">>

\* query_to_bitrix("get_status_list", filter={"ENTITY_ID": e}): the list, or
\* None when the request failed or the list is empty.
QueryStatusList(lists, e, ok) ==
    IF ok /\ lists[e] # <<>> THEN Some(lists[e]) ELSE None

\* {s["NAME"]: s["STATUS_ID"] for s in statuses}, a dict being its items.
StatusDict(statuses) ==
    { <<statuses[i].NAME, statuses[i].STATUS_ID>> : i \in 1..Len(statuses) }

\* load_types, load_stages, load_statuses: the dict, and the queries made;
\* oks[i] tells whether the request of the i-th query succeeds.
Loader(key, lists, oks) ==
    LET q == LoaderQueries(key)
        first == QueryStatusList(lists, q[1], oks[1])
        second == QueryStatusList(lists, q[2], oks[2])
    IN  IF Truthy(first) THEN [value |-> StatusDict(first[1]), queries |-> 1]
        ELSE IF Len(q) = 1 THEN [value |-> {}, queries |-> 1]
        ELSE IF Truthy(second) THEN [value |-> StatusDict(second[1]), queries |-> 2]
        ELSE [value |-> {}, queries |-> 2]

\* A variant of CacheMiss that also misses on an empty cached value.
CacheMissFalsy(cache, key) == IsNone(cache[key]) \/ cache[key][1] = {}

\* key not in _cache
CacheMiss(cache, key) == IsNone(cache[key])

CacheInit ==
    /\ _cache = [k \in CacheKeys |-> None]
    /\ status_lists \in [EntityIds -> StatusLists]
    /\ ex_loads = [k \in CacheKeys |-> 0]
    /\ ex_first = [k \in CacheKeys |-> None]
    /\ ex_call = None

\* Companies.types(), Deals.stages(c) or Leads.statuses(): _get_cached(key,
\* loader).
GetCached ==
    \E key \in CacheKeys, oks \in [1..2 -> BOOLEAN] :
        LET miss == CacheMiss(_cache, key)
            load == Loader(key, status_lists, oks)
            after == IF miss THEN [_cache EXCEPT ![key] = Some(load.value)] ELSE _cache
        IN  /\ _cache' = after
            /\ ex_loads' = IF miss /\ ex_loads[key] < MaxLoads
                            THEN [ex_loads EXCEPT ![key] = @ + 1] ELSE ex_loads
            /\ ex_first' = IF miss /\ ex_loads[key] = 0
                            THEN [ex_first EXCEPT ![key] = Some(load.value)] ELSE ex_first
            /\ ex_call' = Some([key |-> key, ret |-> after[key][1],
                                 queries |-> IF miss THEN load.queries ELSE 0,
                                 loaded_before |-> ex_loads[key] > 0])
            /\ UNCHANGED <<status_lists, OthersThanCache>>

\* clear_cache()
ClearCache ==
    /\ _cache' = [k \in CacheKeys |-> None]
    /\ ex_loads' = [k \in CacheKeys |-> 0]
    /\ ex_first' = [k \in CacheKeys |-> None]
    /\ ex_call' = None
    /\ UNCHANGED <<status_lists, OthersThanCache>>

\* Somebody edits a status list in Bitrix24.
StatusListChange ==
    /\ \E e \in EntityIds, l \in StatusLists : status_lists' = [status_lists EXCEPT ![e] = l]
    /\ UNCHANGED <<_cache, ex_loads, ex_first, ex_call, OthersThanCache>>

CacheIdle ==
    /\ _cache = <<>>
    /\ status_lists = <<>>
    /\ ex_loads = <<>>
    /\ ex_first = <<>>
    /\ ex_call = None

ExplorerIdle == FindIdle /\ CacheIdle

NextCache == GetCached \/ ClearCache \/ StatusListChange

(***************************************************************************)
(* mail_scan/core.py: YandexMailScanner                                    *)
(*                                                                         *)
(* The methods call each other, so the model keeps the frames of the       *)
(* methods being executed in sc_stack (the last one is executing) and the  *)
(* outcome of the method that returned last in sc_result, where its caller *)
(* reads it.  One action is one pass through a method up to its next call  *)
(* of another method or its return.  Each call of the IMAP server, and each*)
(* call of operation_func, answers as the environment chooses.             *)
(***************************************************************************)

\* Bounds: the folders of a folders_list and the messages a search finds.
MaxFolders == 2
MaxMessages == 1

\* self.max_retries, self.retry_delay
max_retries == 3
retry_delay == 2

Fresh == Some("fresh")
Stale == Some("stale")

\* The exceptions of the model: imaplib.IMAP4.abort stands for the network
\* errors (all of them are in every tuple that names IMAP4.abort or OSError),
\* imaplib.IMAP4.error for the exceptions that are in none of the tuples.
NetworkError == "IMAP4.abort"
OtherError == "IMAP4.error"

LogoutOutcomes == {"ok", NetworkError, OtherError}
CtorOutcomes == {"ok", NetworkError, OtherError}
LoginOutcomes == {"OK", "NO", NetworkError, OtherError}
NoopOutcomes == {"ok", NetworkError, OtherError}
OperationOutcomes == {"ok", NetworkError, OtherError}
\* What a successful operation_func returns.
OperationResults == {"r1", "r2"}

\* except (imaplib.IMAP4.abort, OSError, AttributeError) of _safe_close
SafeCloseCaught == {"IMAP4.abort", "OSError", "AttributeError"}
\* except (imaplib.IMAP4.abort, OSError, AttributeError) of _check_connection
CheckConnectionCaught == {"IMAP4.abort", "OSError", "AttributeError"}
\* the first except clause of connect_to_account
ConnectNetworkErrors ==
    {"IMAP4.abort", "socket.timeout", "socket.gaierror", "ConnectionResetError", "OSError"}
\* the first except clause of _safe_operation
OperationNetworkErrors ==
    {"IMAP4.abort", "socket.timeout", "socket.error", "ConnectionResetError",
     "BrokenPipeError", "OSError"}
\* the subclasses of Exception among the exceptions of the model
PyExceptions == ConnectNetworkErrors \cup OperationNetworkErrors
                    \cup {"IMAP4.error", "AttributeError", "ValueError", "Exception"}

Ev(e, r) == [ev |-> e, res |-> r, val |-> "", secs |-> 0]
EvVal(e, r, v) == [ev |-> e, res |-> r, val |-> v, secs |-> 0]
EvSleep(s) == [ev |-> "sleep", res |-> "", val |-> "", secs |-> s]
Events(log, e) == SelectSeq(log, LAMBDA x : x.ev = e)

Frame(fn, pc, op) ==
    [fn |-> fn, pc |-> pc, attempt |-> 0, op |-> op, log |-> <<>>, idx |-> 0, left |-> 0]
Outcome(fn, kind, val, log) == [fn |-> fn, kind |-> kind, val |-> val, log |-> log]

Top == sc_stack[Len(sc_stack)]
Pop == SubSeq(sc_stack, 1, Len(sc_stack) - 1)
ReplaceTop(f) == [sc_stack EXCEPT ![Len(sc_stack)] = f]
Running(fn, pc) == sc_stack # <<>> /\ Top.fn = fn /\ Top.pc = pc
Idle == sc_stack = <<>>

\* A variant of _safe_close without the finally clause: an exception it does
\* not catch leaves the client in place.
_safe_close_no_finally(client, lo) ==
    IF Truthy(client)
    THEN [client |-> IF lo = "ok" \/ lo \in {"IMAP4.abort", "OSError", "AttributeError"}
                     THEN None ELSE client,
          exc |-> IF lo = "ok" \/ lo \in {"IMAP4.abort", "OSError", "AttributeError"}
                  THEN None ELSE Some(lo),
          events |-> <<Ev("logout", lo)>>]
    ELSE [client |-> client, exc |-> None, events |-> <<>>]

\* _safe_close with logout() doing lo: the client it leaves, the exception it
\* lets through (None when there is none) and the logout calls it made.
_safe_close(client, lo) ==
    IF Truthy(client)
    THEN [client |-> None,
          exc |-> IF lo = "ok" \/ lo \in SafeCloseCaught THEN None ELSE Some(lo),
          events |-> <<Ev("logout", lo)>>]
    ELSE [client |-> client, exc |-> None, events |-> <<>>]

\* The try block of one pass of connect_to_account's loop: logout, IMAP4_SSL
\* and login doing lo, ct and lg.
ConnectTry(client, activity, lo, ct, lg) ==
    LET closed == _safe_close(client, lo)
        opened == <<Ev("IMAP4_SSL", "raise")>>
        logged == <<Ev("IMAP4_SSL", "ok"), Ev("login", IF lg = "OK" THEN "OK" ELSE "not OK")>>
    IN  IF Truthy(closed.exc)
        THEN [client |-> closed.client, activity |-> activity, events |-> <<>>,
              exc |-> closed.exc, ret |-> "raise"]
        ELSE IF ct # "ok"
        THEN [client |-> closed.client, activity |-> activity, events |-> opened,
              exc |-> Some(ct), ret |-> "raise"]
        ELSE IF lg = "OK"
        THEN [client |-> Some("IMAP4_SSL"), activity |-> Fresh, events |-> logged,
              exc |-> None, ret |-> "True"]
        ELSE IF lg = "NO"
        THEN [client |-> Some("IMAP4_SSL"), activity |-> activity, events |-> logged,
              exc |-> None, ret |-> "next"]
        ELSE [client |-> Some("IMAP4_SSL"), activity |-> activity, events |-> logged,
              exc |-> Some(lg), ret |-> "raise"]

\* A variant of ConnectHandler without the except Exception clause.
ConnectHandlerNetworkOnly(exc) ==
    IF exc \in {"IMAP4.abort", "socket.timeout", "socket.gaierror", "ConnectionResetError",
                "OSError"}
    THEN "network" ELSE "propagate"

\* The except clause of connect_to_account that handles exc.
ConnectHandler(exc) ==
    IF exc \in ConnectNetworkErrors THEN "network"
    ELSE IF exc \in PyExceptions THEN "Exception"
    ELSE "propagate"

\* wait_time = self.retry_delay * (attempt + 2)
ConnectWait(attempt) == retry_delay * (attempt + 2)

\* for attempt in range(self.max_retries), of both loops
InRange(attempt) == attempt < max_retries

Return(outcome) ==
    /\ sc_stack' = Pop
    /\ sc_result' = Some(outcome)

\* One pass of the loop of connect_to_account.
ConnectAttempt ==
    /\ Running("connect_to_account", "loop")
    /\ \E lo \in (IF Truthy(imap_client) THEN LogoutOutcomes ELSE {"ok"}),
          ct \in CtorOutcomes :
       \E lg \in (IF ct = "ok" THEN LoginOutcomes ELSE {"OK"}) :
         LET t == ConnectTry(imap_client, last_activity, lo, ct, lg)
             log1 == Top.log \o t.events
             log2 == log1
         IN  /\ imap_client' = t.client
             /\ last_activity' = t.activity
             /\ IF t.ret = "True"
                THEN Return(Outcome("connect_to_account", "return", "True", log1))
                ELSE IF t.ret = "raise" /\ ConnectHandler(t.exc[1]) = "propagate"
                THEN Return(Outcome("connect_to_account", "raise", t.exc[1], log1))
                ELSE IF InRange(Top.attempt + 1)
                THEN /\ sc_stack' = ReplaceTop([Top EXCEPT !.attempt = @ + 1, !.log = log2])
                     /\ sc_result' = None
                ELSE Return(Outcome("connect_to_account", "return", "False", log2))
    /\ UNCHANGED <<last_date, with_state, scan_args, searches, OthersThanScanner>>

\* _check_connection with noop() doing np: "True", "False" or the exception
\* it lets through.
_check_connection(client, activity, np) ==
    IF IsNone(client)
    THEN [ret |-> "False", activity |-> activity, events |-> <<>>]
    ELSE IF activity = Stale
    THEN IF np = "ok"
         THEN [ret |-> "True", activity |-> Fresh, events |-> <<>>]
         ELSE IF np \in CheckConnectionCaught
         THEN [ret |-> "False", activity |-> activity, events |-> <<>>]
         ELSE [ret |-> np, activity |-> activity, events |-> <<>>]
    ELSE [ret |-> "True", activity |-> activity, events |-> <<>>]

\* The except clause of _safe_operation that handles exc.
OperationHandler(exc) ==
    IF exc \in OperationNetworkErrors THEN "network"
    ELSE IF exc \in PyExceptions THEN "Exception"
    ELSE "propagate"

\* The sleep of a handler of _safe_operation before the next attempt.
OperationWait(handler, attempt) ==
    IF handler = "network" THEN retry_delay * (attempt + 1) ELSE retry_delay

\* A variant of OperationNext without the raise after the loop: the method
\* falls off its end and returns None.
OperationNextNoRaise(log) ==
    IF InRange(Top.attempt + 1)
    THEN /\ sc_stack' = ReplaceTop([Top EXCEPT !.attempt = @ + 1, !.log = log, !.pc = "try"])
         /\ sc_result' = None
    ELSE Return(Outcome("_safe_operation", "return", "None", log))

\* _safe_operation goes to its next attempt, or leaves the loop and raises.
OperationNext(log) ==
    IF InRange(Top.attempt + 1)
    THEN /\ sc_stack' = ReplaceTop([Top EXCEPT !.attempt = @ + 1, !.log = log, !.pc = "try"])
         /\ sc_result' = None
    ELSE Return(Outcome("_safe_operation", "raise", "Exception", log))

\* An exception exc raised inside the try of _safe_operation; logout() does lo.
OperationRaised(exc, lo, log) ==
    LET h == OperationHandler(exc)
        closed == IF h = "network" THEN _safe_close(imap_client, lo)
                  ELSE [client |-> imap_client, exc |-> None, events |-> <<>>]
        log1 == log
    IN  /\ imap_client' = closed.client
        /\ IF h = "propagate"
           THEN Return(Outcome("_safe_operation", "raise", exc, log1))
           ELSE IF Truthy(closed.exc)
           THEN Return(Outcome("_safe_operation", "raise", closed.exc[1], log1))
           ELSE IF Top.attempt < max_retries - 1
           THEN /\ sc_stack' = ReplaceTop([Top EXCEPT
                                  !.attempt = @ + 1, !.pc = "try",
                                  !.log = log1])
                /\ sc_result' = None
           ELSE Return(Outcome("_safe_operation", "raise", exc, log1))

LogoutChoices == IF Truthy(imap_client) THEN LogoutOutcomes ELSE {"ok"}

\* _safe_operation: the start of the try, self._reconnect_if_needed() up to
\* its call of connect_to_account.
OperationTry ==
    /\ Running("_safe_operation", "try")
    /\ \E np \in (IF Truthy(imap_client) /\ last_activity = Stale
                  THEN NoopOutcomes ELSE {"ok"}) :
         LET c == _check_connection(imap_client, last_activity, np)
             log1 == Top.log \o c.events
         IN  IF c.ret = "True"
             THEN /\ sc_stack' = ReplaceTop([Top EXCEPT !.pc = "invoke", !.log = log1])
                  /\ sc_result' = None
                  /\ last_activity' = c.activity
                  /\ UNCHANGED imap_client
             ELSE IF c.ret = "False"
             THEN /\ sc_stack' = Append(ReplaceTop([Top EXCEPT !.pc = "connected", !.log = log1]),
                                        Frame("connect_to_account", "loop", ""))
                  /\ sc_result' = None
                  /\ UNCHANGED <<imap_client, last_activity>>
             ELSE /\ \E lo \in LogoutChoices : OperationRaised(c.ret, lo, log1)
                  /\ UNCHANGED last_activity
    /\ UNCHANGED <<last_date, with_state, scan_args, searches, OthersThanScanner>>

\* _safe_operation: connect_to_account has returned to _reconnect_if_needed.
OperationConnected ==
    /\ Running("_safe_operation", "connected")
    /\ LET r == sc_result[1]
       IN  IF r.kind = "raise"
           THEN \E lo \in LogoutChoices : OperationRaised(r.val, lo, Top.log)
           ELSE IF r.val = "True"
           THEN /\ sc_stack' = ReplaceTop([Top EXCEPT !.pc = "invoke"])
                /\ sc_result' = None
                /\ UNCHANGED imap_client
           ELSE /\ OperationNext(Top.log)
                /\ UNCHANGED imap_client
    /\ UNCHANGED <<last_activity, last_date, with_state, scan_args, searches, OthersThanScanner>>

\* The criteria scan_messages searches with: its local search_criteria when the
\* loop over the folders starts.
SinceLastDate(date) == <<"SINCE", date>>
FixedCriteria == <<"SINCE", "25-Mar-2025", "BEFORE", "26-Jun-2025">>
ScanCriteria(search_criteria, date) ==
    LET defaulted == IF IsNone(search_criteria) THEN SinceLastDate(date)
                     ELSE search_criteria[1]
        overwritten == FixedCriteria
    IN  overwritten

\* The folder scan_messages is at: the frame of scan_messages lies under the
\* frame of the _safe_operation it called.
ScanFolderName(stack) == scan_args[1].folders[stack[Len(stack) - 1].idx]

\* What a call operation_func() can do, by the function passed: the outcomes
\* it has with the server answering as the environment chooses.
InvokeOutcomes(op, client) ==
    CASE op = "operation" ->
           { [exc |-> None, val |-> v] : v \in OperationResults }
             \cup { [exc |-> Some(e), val |-> ""] : e \in {NetworkError, OtherError} }
      [] op = "_select_folder" ->
           IF IsNone(client) THEN { [exc |-> Some("ValueError"), val |-> ""] }
           ELSE { [exc |-> None, val |-> "True"] }
                  \cup { [exc |-> Some(e), val |-> ""] : e \in {"Exception", NetworkError, OtherError} }
      [] op = "_search_messages" ->
           IF IsNone(client) THEN { [exc |-> None, val |-> "None"] }
           ELSE { [exc |-> None, val |-> v] : v \in {"empty", "ids"} }
                  \cup { [exc |-> Some(e), val |-> ""] : e \in {"Exception", NetworkError, OtherError} }
      [] op = "_fetch" ->
           IF IsNone(client) THEN { [exc |-> Some("ValueError"), val |-> ""] }
           ELSE { [exc |-> None, val |-> "msg_data"] }
                  \cup { [exc |-> Some(e), val |-> ""] : e \in {"Exception", NetworkError, OtherError} }

\* _safe_operation: result = operation_func(*args, **kwargs), for a function
\* that calls no method of the scanner; _fetch_message calls _safe_operation.
OperationInvoke ==
    /\ Running("_safe_operation", "invoke")
    /\ IF Top.op = "_fetch_message"
       THEN /\ sc_stack' = Append(ReplaceTop([Top EXCEPT !.pc = "invoked"]),
                                  Frame("_safe_operation", "try", "_fetch"))
            /\ sc_result' = None
            /\ UNCHANGED <<imap_client, last_activity, searches>>
       ELSE \E o \in InvokeOutcomes(Top.op, imap_client) :
              /\ searches' = IF Top.op = "_search_messages" /\ Truthy(imap_client)
                             THEN Append(searches, [folder |-> ScanFolderName(sc_stack),
                                                    criteria |-> scan_args[1].criteria])
                             ELSE searches
              /\ IF IsNone(o.exc)
                 THEN /\ last_activity' = Fresh
                      /\ Return(Outcome("_safe_operation", "return", o.val,
                                        Append(Top.log, EvVal("invoke", "ok", o.val))))
                      /\ UNCHANGED imap_client
                 ELSE /\ \E lo \in LogoutChoices :
                           OperationRaised(o.exc[1], lo, Append(Top.log, Ev("invoke", "raise")))
                      /\ UNCHANGED last_activity
    /\ UNCHANGED <<last_date, with_state, scan_args, OthersThanScanner>>

\* _safe_operation: the operation_func that called _safe_operation has returned
\* or raised what that call did.
OperationInvoked ==
    /\ Running("_safe_operation", "invoked")
    /\ LET r == sc_result[1]
       IN  IF r.kind = "return"
           THEN /\ last_activity' = Fresh
                /\ Return(Outcome("_safe_operation", "return", r.val,
                                  Append(Top.log, EvVal("invoke", "ok", r.val))))
                /\ UNCHANGED imap_client
           ELSE /\ \E lo \in LogoutChoices :
                     OperationRaised(r.val, lo, Append(Top.log, Ev("invoke", "raise")))
                /\ UNCHANGED last_activity
    /\ UNCHANGED <<last_date, with_state, scan_args, searches, OthersThanScanner>>

\* The code that holds the scanner calls connect_to_account().
CallConnect ==
    /\ Idle
    /\ sc_stack' = <<Frame("connect_to_account", "loop", "")>>
    /\ sc_result' = None
    /\ scan_args' = None
    /\ searches' = <<>>
    /\ UNCHANGED <<imap_client, last_activity, last_date, with_state,
                   OthersThanScanner>>

\* It calls _safe_operation(operation_func), as get_folders_list and
\* _fetch_message do.
CallSafeOperation ==
    /\ Idle
    /\ \E op \in {"operation", "_fetch_message"} :
         sc_stack' = <<Frame("_safe_operation", "try", op)>>
    /\ sc_result' = None
    /\ scan_args' = None
    /\ searches' = <<>>
    /\ UNCHANGED <<imap_client, last_activity, last_date, with_state,
                   OthersThanScanner>>

\* close_connection(), and __exit__ which is a call of it.
close_connection(fn, client, lo) ==
    LET closed == _safe_close(client, lo)
    IN  [client |-> closed.client,
         outcome |-> IF Truthy(closed.exc)
                     THEN Outcome(fn, "raise", closed.exc[1], closed.events)
                     ELSE Outcome(fn, "return", "None", closed.events)]

CallCloseConnection ==
    /\ Idle
    /\ \E lo \in LogoutChoices :
         LET c == close_connection("close_connection", imap_client, lo)
         IN  /\ imap_client' = c.client
             /\ sc_result' = Some(c.outcome)
    /\ scan_args' = None
    /\ searches' = <<>>
    /\ UNCHANGED <<last_activity, last_date, sc_stack, with_state, 
                   OthersThanScanner>>

\* with scanner: ...  calls __enter__, which calls connect_to_account.
WithEnter ==
    /\ Idle
    /\ with_state = "outside"
    /\ sc_stack' = <<Frame("__enter__", "connected", ""),
                     Frame("connect_to_account", "loop", "")>>
    /\ sc_result' = None
    /\ scan_args' = None
    /\ searches' = <<>>
    /\ UNCHANGED <<imap_client, last_activity, last_date, with_state,
                   OthersThanScanner>>

\* if self.connect_to_account(): return self, else raise
__enter__(connected) ==
    IF connected.kind = "return" /\ connected.val = "True"
    THEN Outcome("__enter__", "return", "self", connected.log)
    ELSE IF connected.kind = "return"
    THEN Outcome("__enter__", "raise", "Exception", connected.log)
    ELSE Outcome("__enter__", "raise", connected.val, connected.log)

EnterConnected ==
    /\ Running("__enter__", "connected")
    /\ LET o == __enter__(sc_result[1])
       IN  /\ Return(o)
           /\ with_state' = IF o.kind = "return" THEN "inside" ELSE "outside"
    /\ UNCHANGED <<imap_client, last_activity, last_date, scan_args, searches,
                   OthersThanScanner>>

\* The with-block ends, normally or by an exception of its body: __exit__.
WithExit ==
    /\ Idle
    /\ with_state = "inside"
    /\ \E lo \in LogoutChoices, how \in {"normal", "exception"} :
         LET c == close_connection("__exit__", imap_client, lo)
         IN  /\ imap_client' = c.client
             /\ sc_result' = Some([c.outcome EXCEPT !.log = <<Ev("with", how)>> \o @])
    /\ with_state' = "outside"
    /\ scan_args' = None
    /\ searches' = <<>>
    /\ UNCHANGED <<last_activity, last_date, sc_stack, 
                   OthersThanScanner>>

\* More than keepalive_interval passes since the time stamp in last_activity.
Elapse ==
    /\ last_activity = Fresh
    /\ last_activity' = Stale
    /\ UNCHANGED <<imap_client, last_date, sc_stack, sc_result, with_state, scan_args,
                   searches, OthersThanScanner>>

FolderNames == {"INBOX", "Sent"}
FolderLists == UNION { [1..n -> FolderNames] : n \in 0..MaxFolders }
CallerCriteria == {None, Some(<<"UNSEEN">>)}
LastDates == {"01-Jan-2025", "25-Mar-2025"}

\* scan_messages(folders_list, search_criteria) up to its loop over the folders.
CallScanMessages ==
    /\ Idle
    /\ \E fl \in FolderLists, sc \in CallerCriteria :
         scan_args' = Some([folders |-> fl, search_criteria |-> sc,
                            criteria |-> ScanCriteria(sc, last_date)])
    /\ searches' = <<>>
    /\ sc_stack' = <<[Frame("scan_messages", "folder", "") EXCEPT !.idx = 1]>>
    /\ sc_result' = None
    /\ UNCHANGED <<imap_client, last_activity, last_date, with_state, OthersThanScanner>>

\* if folder != "INBOX": continue
ScannedFolder(folder) == folder = "INBOX"

ScanNextFolder == ReplaceTop([Top EXCEPT !.idx = @ + 1, !.pc = "folder", !.left = 0])

\* scan_messages: the head of the loop over the folders, to the call of
\* select_folder (which is a call of _safe_operation(_select_folder)), or the
\* return after the last folder.
ScanFolder ==
    /\ Running("scan_messages", "folder")
    /\ IF Top.idx > Len(scan_args[1].folders)
       THEN Return(Outcome("scan_messages", "return", "emails", Top.log))
       ELSE IF ~ScannedFolder(scan_args[1].folders[Top.idx])
       THEN /\ sc_stack' = ScanNextFolder
            /\ sc_result' = None
       ELSE /\ sc_stack' = Append(ReplaceTop([Top EXCEPT !.pc = "selected"]),
                                  Frame("_safe_operation", "try", "_select_folder"))
            /\ sc_result' = None
    /\ UNCHANGED <<imap_client, last_activity, last_date, with_state, scan_args, searches,
                   OthersThanScanner>>

\* scan_messages: select_folder has returned (False when its _safe_operation
\* raised); on True, the call of _safe_operation(_search_messages).
ScanSelected ==
    /\ Running("scan_messages", "selected")
    /\ IF sc_result[1].kind = "return" /\ sc_result[1].val = "True"
       THEN sc_stack' = Append(ReplaceTop([Top EXCEPT !.pc = "searched"]),
                               Frame("_safe_operation", "try", "_search_messages"))
       ELSE sc_stack' = ScanNextFolder
    /\ sc_result' = None
    /\ UNCHANGED <<imap_client, last_activity, last_date, with_state, scan_args, searches,
                   OthersThanScanner>>

\* scan_messages: the search has returned or raised; the ids it found.
ScanSearched ==
    /\ Running("scan_messages", "searched")
    /\ IF sc_result[1].kind = "return" /\ sc_result[1].val = "ids"
       THEN \E n \in 1..MaxMessages :
              sc_stack' = ReplaceTop([Top EXCEPT !.pc = "message", !.left = n])
       ELSE sc_stack' = ScanNextFolder
    /\ sc_result' = None
    /\ UNCHANGED <<imap_client, last_activity, last_date, with_state, scan_args, searches,
                   OthersThanScanner>>

\* scan_messages: the head of the loop over the messages, to the call of
\* _safe_operation(self._fetch_message, num).
ScanMessage ==
    /\ Running("scan_messages", "message")
    /\ IF Top.left = 0
       THEN sc_stack' = ScanNextFolder
       ELSE sc_stack' = Append(ReplaceTop([Top EXCEPT !.pc = "fetched"]),
                               Frame("_safe_operation", "try", "_fetch_message"))
    /\ sc_result' = None
    /\ UNCHANGED <<imap_client, last_activity, last_date, with_state, scan_args, searches,
                   OthersThanScanner>>

\* scan_messages: the fetch has returned or raised; parse_email_message gives
\* a record, None or an exception, or the data are not a message.
ScanFetched ==
    /\ Running("scan_messages", "fetched")
    /\ \E parsed \in (IF sc_result[1].kind = "return"
                      THEN {"record", "None", "raise", "invalid"} ELSE {"raise"}) :
         sc_stack' = ReplaceTop([Top EXCEPT
                        !.pc = "message", !.left = @ - 1,
                        !.log = IF parsed = "record"
                                THEN Append(@, EvVal("email", "ok", ScanFolderName(Append(sc_stack, Top))))
                                ELSE @])
    /\ sc_result' = None
    /\ UNCHANGED <<imap_client, last_activity, last_date, with_state, scan_args, searches,
                   OthersThanScanner>>

ScannerInit ==
    /\ imap_client = None
    /\ last_activity = None
    /\ last_date \in LastDates
    /\ sc_stack = <<>>
    /\ sc_result = None
    /\ with_state = "outside"
    /\ scan_args = None
    /\ searches = <<>>

ScannerIdle ==
    /\ imap_client = None
    /\ last_activity = None
    /\ last_date = ""
    /\ sc_stack = <<>>
    /\ sc_result = None
    /\ with_state = "outside"
    /\ scan_args = None
    /\ searches = <<>>

NextScanner ==
    \/ CallConnect
    \/ ConnectAttempt
    \/ CallSafeOperation
    \/ OperationTry
    \/ OperationConnected
    \/ OperationInvoke
    \/ OperationInvoked
    \/ CallCloseConnection
    \/ WithEnter
    \/ EnterConnected
    \/ WithExit
    \/ Elapse

NextScan ==
    \/ CallScanMessages
    \/ ScanFolder
    \/ ScanSelected
    \/ ScanSearched
    \/ ScanMessage
    \/ ScanFetched
    \/ ConnectAttempt
    \/ OperationTry
    \/ OperationConnected
    \/ OperationInvoke
    \/ OperationInvoked
    \/ Elapse



(***************************************************************************)
(* google_auth/core.py: retry_on_network_error                             *)
(***************************************************************************)

\* Bound: the max_retries a function is decorated with.
MaxRetriesArg == 3

\* retry_on_network_error(max_retries=5, initial_delay=2, backoff=2)
default_initial_delay == 2
default_backoff == 2

\* The names the module binds: its imports, and the classes it defines.
ModuleGlobals ==
    {"Request", "Credentials", "InstalledAppFlow", "MediaIoBaseUpload", "build",
     "MediaIoBaseDownload", "gspread", "wraps", "date", "datetime", "Decimal",
     "io", "os", "logging", "time"}
PyBuiltins == {"ConnectionError", "TimeoutError", "Exception", "ValueError"}

\* except (socket.gaierror, httplib2.ServerNotFoundError, ConnectionError,
\* TimeoutError): the names the tuple is built from, and the exceptions in it.
ExceptClauseNames == {"socket", "httplib2", "ConnectionError", "TimeoutError"}
RetriedErrors ==
    {"socket.gaierror", "httplib2.ServerNotFoundError", "ConnectionError", "TimeoutError"}

\* What a call of the decorated function can do.
FuncOutcomes == {"ok"} \cup RetriedErrors \cup {"ValueError"}

\* Python builds the tuple of an except clause when an exception reaches the
\* clause: a name that is bound neither in the module nor in builtins raises
\* NameError there.
ExceptClauseEvaluates == ExceptClauseNames \subseteq (ModuleGlobals \cup PyBuiltins)

\* One pass of the loop of wrapper, the call of func doing o: what the pass
\* ends with, and the wrapper's locals after it.
WrapperPass(o, attempt, delay, last_exception, max) ==
    IF o = "ok"
    THEN [end |-> "return", val |-> "result", delay |-> delay,
          last_exception |-> last_exception, slept |-> None]
    ELSE IF ~ExceptClauseEvaluates
    THEN [end |-> "raise", val |-> "NameError", delay |-> delay,
          last_exception |-> last_exception, slept |-> None]
    ELSE IF o \notin RetriedErrors
    THEN [end |-> "raise", val |-> o, delay |-> delay,
          last_exception |-> last_exception, slept |-> None]
    ELSE IF attempt < max - 1
    THEN [end |-> "next", val |-> "", delay |-> delay * default_backoff,
          last_exception |-> Some(o), slept |-> Some(delay)]
    ELSE [end |-> "next", val |-> "", delay |-> delay,
          last_exception |-> Some(o), slept |-> None]

RetryInit ==
    /\ rt_max \in 1..MaxRetriesArg
    /\ rt_script \in [1..rt_max -> FuncOutcomes]
    /\ rt_pc = "loop"
    /\ rt_attempt = 0
    /\ rt_delay = default_initial_delay
    /\ rt_last_exception = None
    /\ rt_calls = 0
    /\ rt_slept = <<>>
    /\ rt_result = None

\* One pass of for attempt in range(max_retries) of wrapper, and the raise
\* after the loop when the pass was the last.
WrapperAttempt ==
    /\ rt_pc = "loop"
    /\ LET p == WrapperPass(rt_script[rt_attempt + 1], rt_attempt, rt_delay,
                            rt_last_exception, rt_max)
       IN  /\ rt_calls' = rt_calls + 1
           /\ rt_delay' = p.delay
           /\ rt_last_exception' = p.last_exception
           /\ rt_slept' = rt_slept \o p.slept
           /\ IF p.end = "next"
              THEN IF rt_attempt + 1 < rt_max
                   THEN /\ rt_attempt' = rt_attempt + 1
                        /\ UNCHANGED <<rt_pc, rt_result>>
                   ELSE /\ rt_pc' = "done"
                        /\ rt_result' = Some([kind |-> "raise", val |-> p.last_exception[1]])
                        /\ UNCHANGED rt_attempt
              ELSE /\ rt_pc' = "done"
                   /\ rt_result' = Some([kind |-> p.end, val |-> p.val])
                   /\ UNCHANGED rt_attempt
    /\ UNCHANGED <<rt_max, rt_script, OthersThanRetry>>

RetryIdle ==
    /\ rt_max = 0
    /\ rt_script = <<>>
    /\ rt_pc = "done"
    /\ rt_attempt = 0
    /\ rt_delay = 0
    /\ rt_last_exception = None
    /\ rt_calls = 0
    /\ rt_slept = <<>>
    /\ rt_result = None

NextRetry == WrapperAttempt

(***************************************************************************)
(* google_auth/core.py: GoogleAccountOAuth and its services                *)
(***************************************************************************)

\* Bound: the services built on one object.
MaxServices == 3

\* build("docs", "v1"), build("drive", "v3"), build("sheets", "v4")
ServiceApis == {"docs", "drive", "sheets"}

\* A variant of CloseLoop without the try/except around service.close().
CloseLoopUnguarded(services, raising) ==
    LET stops == { i \in 1..Len(services) : services[i] \in raising }
        upto == IF stops = {} THEN Len(services)
                ELSE CHOOSE i \in stops : \A j \in stops : i <= j
    IN  [closes |-> [i \in 1..upto |-> [service |-> services[i],
                                         raised |-> services[i] \in raising]],
         propagates |-> stops # {}]

\* for service in self._services: try: service.close() except Exception: the
\* close() calls made, raising the services whose close() raises.
CloseLoop(services, raising) ==
    [closes |-> [i \in 1..Len(services) |-> [service |-> services[i],
                                              raised |-> services[i] \in raising]],
     propagates |-> FALSE]

GoogleInit ==
    /\ ga_services = <<>>
    /\ ga_open = {}
    /\ ga_next = 0
    /\ ga_with \in {"outside", "inside"}
    /\ ga_last = "__init__"
    /\ ga_closes = <<>>

\* create_docs_service, create_drive_service, create_sheet_service: build
\* gives the service, which is appended, or raises and nothing is appended.
CreateService ==
    /\ ga_next < MaxServices
    /\ ga_with # "exited"
    /\ \E api \in ServiceApis, built \in BOOLEAN :
         LET service == [id |-> ga_next + 1, api |-> api]
         IN  IF built
             THEN /\ ga_services' = Append(ga_services, service)
                  /\ ga_open' = ga_open \cup {service}
                  /\ ga_next' = ga_next + 1
             ELSE UNCHANGED <<ga_services, ga_open, ga_next>>
    /\ ga_last' = "create"
    /\ UNCHANGED <<ga_with, ga_closes, OthersThanGoogle>>

\* close_all_services, called as how: "close" directly, "exit" by __exit__.
CloseAll(how) ==
    \E raising \in SUBSET { ga_services[i] : i \in 1..Len(ga_services) } :
        LET loop == CloseLoop(ga_services, raising)
        IN  /\ ga_closes' = loop.closes
            /\ ga_open' = ga_open \ { loop.closes[i].service : i \in 1..Len(loop.closes) }
            /\ ga_services' = IF loop.propagates THEN ga_services ELSE <<>>
            /\ ga_last' = IF loop.propagates THEN "raised" ELSE how
            /\ UNCHANGED <<ga_next, OthersThanGoogle>>

CloseAllServices ==
    /\ ga_with # "exited"
    /\ CloseAll("close")
    /\ UNCHANGED ga_with

\* __exit__ of the with-block
GoogleExit ==
    /\ ga_with = "inside"
    /\ ga_with' = "exited"
    /\ CloseAll("exit")

GoogleIdle ==
    /\ ga_services = <<>>
    /\ ga_open = {}
    /\ ga_next = 0
    /\ ga_with = "outside"
    /\ ga_last = ""
    /\ ga_closes = <<>>

NextGoogle == CreateService \/ CloseAllServices \/ GoogleExit

(***************************************************************************)
(* send_msg_mode/core.py: sending_main and send_tracked_email              *)
(***************************************************************************)

\* Bound: the entries of TARGET_EMAILS.
MaxTargets == 3

\* What the environment does during one send_tracked_email: whether
\* get_employee_info gives the employee, whether the sender has a password,
\* whether building_msg builds the message, what the docs table holds for
\* DOC_ID (or that the query raises), whether _upload_file makes the
\* attachment, and whether SMTP accepts the message.
SendEnvs ==
    [employee : BOOLEAN, password : BOOLEAN, building : BOOLEAN,
     docs : {"no row", "empty", "content", "raise"},
     attachment : BOOLEAN, smtp : BOOLEAN]

\* postgres upload_file(file_id): False without a row, the bytes of the
\* document otherwise, which may be none.
upload_file(docs) ==
    CASE docs = "no row" -> "False"
      [] docs = "empty" -> "b''"
      [] docs = "content" -> "bytes"

\* add_attach("file", dock_content=..., dock_name=...): what it returns, and
\* whether it attached the document.  Without a return statement the method
\* returns None.
add_attach_file(dock_content, attachment) ==
    IF dock_content \notin {"None", "b''"}
    THEN IF attachment
         THEN [ret |-> "True", attached |-> TRUE]
         ELSE [ret |-> "False", attached |-> FALSE]
    ELSE [ret |-> "None", attached |-> FALSE]

\* The result of a send_tracked_email that ends before send_msg.
NotSent(ret) == [ret |-> ret, send_msg |-> FALSE, attached |-> FALSE]

\* msg_operator.send_msg(): the html body, or False.
send_msg(env, attached) ==
    [ret |-> IF env.smtp THEN "html_body_text" ELSE "False",
     send_msg |-> TRUE, attached |-> attached]

\* send_tracked_email(users_data, prepared_values, config, conf_const): ret is
\* what it returns, or the exception that leaves it.
send_tracked_email(env, doc_id) ==
    IF ~env.employee THEN NotSent("False")
    ELSE IF ~env.password THEN NotSent("raise ValueError: password")
    ELSE IF ~env.building THEN NotSent("None")
    ELSE IF IsNone(doc_id) THEN send_msg(env, FALSE)
    ELSE IF env.docs = "raise" THEN NotSent("raise Exception")
    ELSE IF upload_file(env.docs) = "False" THEN NotSent("False")
    ELSE LET file_attach == add_attach_file(upload_file(env.docs), env.attachment)
         IN  IF file_attach.ret = "False" THEN NotSent("raise ValueError: attachment")
             ELSE send_msg(env, file_attach.attached)

Raises(ret) ==
    ret \in {"raise ValueError: password", "raise ValueError: attachment", "raise Exception"}

SendInit ==
    /\ sm_targets \in 0..MaxTargets
    /\ sm_doc_id \in {None, Some(1)}
    /\ sm_pc = "loop"
    /\ sm_ind = 0
    /\ sm_attempts = <<>>

\* One pass of for ind, target_email in enumerate(config["TARGET_EMAILS"]),
\* and the end of the loop.  An exception of send_tracked_email reaches
\* except Exception as error: raise error.
SendingMainStep ==
    /\ sm_pc = "loop"
    /\ IF ~(sm_ind < sm_targets)
       THEN /\ sm_pc' = "done"
            /\ UNCHANGED <<sm_ind, sm_attempts>>
       ELSE \E env \in SendEnvs :
              LET is_sending == send_tracked_email(env, sm_doc_id)
              IN  /\ sm_attempts' = Append(sm_attempts,
                                           [target |-> sm_ind + 1,
                                            ret |-> is_sending.ret,
                                            send_msg |-> is_sending.send_msg,
                                            attached |-> is_sending.attached])
                  /\ IF Raises(is_sending.ret)
                     THEN sm_pc' = "raised" /\ UNCHANGED sm_ind
                     ELSE sm_ind' = sm_ind + 1 /\ UNCHANGED sm_pc
    /\ UNCHANGED <<sm_targets, sm_doc_id, OthersThanSend>>

SendIdle ==
    /\ sm_targets = 0
    /\ sm_doc_id = None
    /\ sm_pc = "done"
    /\ sm_ind = 0
    /\ sm_attempts = <<>>

NextSend == SendingMainStep

(***************************************************************************)
(* gemini/core.py: Gemini.generate_content                                 *)
(***************************************************************************)

\* Bound: the max_attempts of a Gemini object.
MaxAttemptsArg == 2

\* The texts of a response: none, prose, JSON, JSON between ``` fences, JSON
\* with the Python literals None/True/False, the JSON null, and a text that
\* holds six backticks in a row.
ResponseTexts ==
    {"", "prose", "json", "fenced json", "python literals", "null", "six backticks"}

\* The exceptions of the API by their message: a 429 with and without "Please
\* retry in 14s.", a 503, and any other.
ApiErrors == {"429 Please retry in 14s.", "429", "503", "500"}
RetryInSeconds == 14

\* _safe_parse_ai_json(response_text): the parsed data, or None.  The search
\* for six backticks followed by group(1) raises IndexError, which the
\* function turns into None; the fence lines are dropped, the Python literals
\* replaced, and json.loads gives None for null and raises for prose.
_safe_parse_ai_json(response_text) ==
    CASE response_text = "six backticks" -> None
      [] response_text \in {"json", "fenced json", "python literals"} -> Some("data")
      [] response_text = "null" -> None
      [] OTHER -> None

\* A variant of ResponseDict that does not look at the parsed result.
ResponseDictUnparsed(text, json_return) ==
    IF text = "" THEN [success |-> FALSE, error |-> "no response"]
    ELSE IF json_return = "False"
    THEN [success |-> TRUE, format |-> "text", result |-> text]
    ELSE [success |-> TRUE, format |-> "json", result |-> "data"]

\* The dict returned for a response.
ResponseDict(text, json_return) ==
    IF text = "" THEN [success |-> FALSE, error |-> "no response"]
    ELSE IF json_return = "False"
    THEN [success |-> TRUE, format |-> "text", result |-> text]
    ELSE IF Truthy(_safe_parse_ai_json(text))
    THEN [success |-> TRUE, format |-> "json", result |-> _safe_parse_ai_json(text)[1]]
    ELSE [success |-> FALSE, format |-> "text", result |-> text]

RECURSIVE Power(_, _)
Power(b, n) == IF n = 0 THEN 1 ELSE b * Power(b, n - 1)

\* The inner except clause: the sleep it makes, or the raise.
GeminiHandler(e, attempt, max) ==
    IF e \in {"429 Please retry in 14s.", "429"}
    THEN [raise |-> FALSE,
          slept |-> IF e = "429 Please retry in 14s." THEN <<RetryInSeconds + 60>> ELSE <<>>]
    ELSE IF e = "503" \/ attempt < max - 1
    THEN [raise |-> FALSE, slept |-> <<Power(3, attempt)>>]
    ELSE [raise |-> TRUE, slept |-> <<>>]

GeminiInit ==
    /\ gm_max \in 0..MaxAttemptsArg
    /\ gm_json_return \in {"False", "True", "None"}
    /\ gm_pc = "loop"
    /\ gm_attempt = 0
    /\ gm_calls = 0
    /\ gm_last = None
    /\ gm_slept = <<>>
    /\ gm_result = None

\* One pass of for attempt in range(self.max_attempts), and the return after
\* the loop when no pass is left.
GenerateAttempt ==
    /\ gm_pc = "loop"
    /\ IF ~(gm_attempt < gm_max)
       THEN /\ gm_pc' = "done"
            /\ gm_result' = Some([success |-> FALSE, error |-> "out of attempts"])
            /\ UNCHANGED <<gm_attempt, gm_calls, gm_last, gm_slept>>
       ELSE \E o \in ResponseTexts \cup ApiErrors :
              /\ gm_calls' = gm_calls + 1
              /\ gm_last' = Some(o)
              /\ IF o \in ResponseTexts
                 THEN /\ gm_pc' = "done"
                      /\ gm_result' = Some(ResponseDict(o, gm_json_return))
                      /\ UNCHANGED <<gm_attempt, gm_slept>>
                 ELSE LET h == GeminiHandler(o, gm_attempt, gm_max)
                      IN  IF h.raise
                          THEN /\ gm_pc' = "done"
                               /\ gm_result' = Some([success |-> FALSE, error |-> o])
                               /\ UNCHANGED <<gm_attempt, gm_slept>>
                          ELSE /\ gm_attempt' = gm_attempt + 1
                               /\ gm_slept' = gm_slept \o h.slept
                               /\ UNCHANGED <<gm_pc, gm_result>>
    /\ UNCHANGED <<gm_max, gm_json_return, OthersThanGemini>>

GeminiIdle ==
    /\ gm_max = 0
    /\ gm_json_return = "False"
    /\ gm_pc = "done"
    /\ gm_attempt = 0
    /\ gm_calls = 0
    /\ gm_last = None
    /\ gm_slept = <<>>
    /\ gm_result = None

NextGemini == GenerateAttempt

(***************************************************************************)
(* mail_scan/utilities.py: parse_email_message and _return_body_mail       *)
(***************************************************************************)

\* Bounds: the instants of the Date headers and of date_filter, and the parts
\* of a multipart message.
MaxTime == 2
MaxParts == 3
MaxNameLen == 3

\* len(part.get_payload(decode=True)) > 100
AttachMinLen == 100

\* A Date header is missing (None), text that is no date, or the RFC 2822
\* text of an instant: email.utils.parsedate_tz and mktime_tz give the instant
\* back.
BadDate == [rfc2822 |-> FALSE, instant |-> 0]
DateOf(t) == [rfc2822 |-> TRUE, instant |-> t]
DateHeaders == {None, Some(BadDate)} \cup { Some(DateOf(t)) : t \in 0..MaxTime }

_parse_date(date_header) ==
    IF IsNone(date_header) THEN None
    ELSE IF date_header[1].rfc2822 THEN Some(date_header[1].instant)
    ELSE None

\* An address header is missing, text without an address, or holds one.
AddressHeaders == {None, Some("no address"), Some("a@x.ru")}

\* convert_email: the address in the text, or ValueError.
convert_email(text) ==
    IF text = "a@x.ru" THEN [exc |-> None, val |-> text]
    ELSE [exc |-> Some("ValueError"), val |-> ""]

\* decode_mime_words(msg.get(header, ""))
HeaderText(h) == IF IsNone(h) THEN "" ELSE h[1]

\* convert_receivers: the addresses of To, CC and BCC, or ValueError.
RECURSIVE Receivers(_)
Receivers(headers) ==
    IF headers = <<>> THEN [exc |-> None, val |-> <<>>]
    ELSE LET text == HeaderText(Head(headers))
             rest == Receivers(Tail(headers))
         IN  IF text = "" THEN rest
             ELSE IF Truthy(convert_email(text).exc) THEN [exc |-> Some("ValueError"), val |-> <<>>]
             ELSE IF Truthy(rest.exc) THEN rest
             ELSE [exc |-> None, val |-> <<convert_email(text).val>> \o rest.val]

convert_receivers(msg) ==
    LET r == Receivers(<<msg.to, msg.cc, msg.bcc>>)
    IN  IF IsNone(r.exc) /\ r.val = <<>> THEN [exc |-> Some("ValueError"), val |-> <<>>]
        ELSE r

\* msg_date < date_filter: Python orders two datetimes, and raises TypeError
\* when one side is None.
DateLess(msg_date, date_filter) ==
    IF IsNone(msg_date) \/ IsNone(date_filter)
    THEN [exc |-> Some("TypeError"), val |-> FALSE]
    ELSE [exc |-> None, val |-> msg_date[1] < date_filter[1]]

Raise(e) == [kind |-> "raise", val |-> e]

\* parse_email_message(msg_data, date_filter): None, the record, or the
\* exception that leaves it.
parse_email_message(msg, date_filter) ==
    LET msg_date == _parse_date(msg.date)
        less == DateLess(msg_date, date_filter)
        receivers == convert_receivers(msg)
        convert_from == convert_email(HeaderText(msg.from))
    IN  IF Truthy(date_filter) /\ Truthy(less.exc) THEN Raise(less.exc[1])
        ELSE IF Truthy(date_filter) /\ less.val THEN [kind |-> "return", val |-> "None"]
        ELSE IF Truthy(receivers.exc) THEN Raise(receivers.exc[1])
        ELSE IF Truthy(convert_from.exc) THEN Raise(convert_from.exc[1])
        ELSE [kind |-> "return", val |-> "record"]

ParseInit ==
    /\ pm_msg \in [date : DateHeaders, to : AddressHeaders, cc : AddressHeaders,
                   bcc : {None}, from : AddressHeaders]
    /\ pm_filter \in {None} \cup { Some(t) : t \in 0..MaxTime }
    /\ pm_result = None

ParseEmailMessage ==
    /\ IsNone(pm_result)
    /\ pm_result' = Some(parse_email_message(pm_msg, pm_filter))
    /\ UNCHANGED <<pm_msg, pm_filter, bodyVars, allowedVars, extractVars, OthersThanMail>>

NextParse == ParseEmailMessage

\* A content type is <<maintype, subtype>>; a file name is the sequence of its
\* pieces, each a dot or a run of other characters, and an optional file name
\* is None or Some(name), Some(<<>>) being the empty string; a payload is its bytes, of which "?" is a byte the part's charset cannot
\* decode; a text is its characters.
TextPlain == <<"text", "plain">>
TextHtml == <<"text", "html">>
ApplicationPdf == <<"application", "pdf">>
OctetStream == <<"application", "octet-stream">>
MultipartMixed == <<"multipart", "mixed">>

ALLOWED_EXTENSIONS ==
    {<<".", "pdf">>, <<".", "doc">>, <<".", "docx">>, <<".", "xls">>, <<".", "xlsx">>}
ALLOWED_MIME_TYPES ==
    {<<"application", "pdf">>,
     <<"application", "msword">>,
     <<"application", "vnd.openxmlformats-officedocument.wordprocessingml.document">>,
     <<"application", "vnd.ms-word.document.macroEnabled.12">>,
     <<"application", "vnd.ms-excel">>,
     <<"application", "vnd.openxmlformats-officedocument.spreadsheetml.sheet">>,
     <<"application", "vnd.ms-excel.sheet.macroEnabled.12">>,
     <<"application", "vnd.ms-excel.sheet.binary.macroEnabled.12">>,
     <<"application", "octet-stream">>}

\* Python's truth of an optional text: None and "" are false.
TextTruthy(t) == Truthy(t) /\ t[1] # <<>>

\* str.lower() on the pieces of the model.
Lower(name) ==
    [i \in 1..Len(name) |->
        IF name[i] = "PDF" THEN "pdf" ELSE IF name[i] = "XLSX" THEN "xlsx" ELSE name[i]]

\* os.path.splitext(name)[1]: the name from its last dot on, and "" when the
\* name has no dot or has only dots before its last dot.
SplitExt(name) ==
    LET dots == { i \in 1..Len(name) : name[i] = "." }
        dotIndex == CHOOSE i \in dots : \A j \in dots : j <= i
    IN  IF dots = {} THEN <<>>
        ELSE IF \A j \in 1..(dotIndex - 1) : name[j] = "." THEN <<>>
        ELSE SubSeq(name, dotIndex, Len(name))

\* _is_allowed_attachment(filename, content_type), filename an optional file
\* name.
_is_allowed_attachment(filename, content_type) ==
    IF content_type \in ALLOWED_MIME_TYPES
    THEN IF content_type = OctetStream /\ TextTruthy(filename)
         THEN SplitExt(Lower(filename[1])) \in ALLOWED_EXTENSIONS
         ELSE TRUE
    ELSE FALSE

\* decode_filename(part.get_filename()) for a name that needs no decoding.
decode_filename(filename) ==
    IF ~TextTruthy(filename) THEN <<"unknown_file">> ELSE filename[1]

\* payload.decode(charset, errors="ignore")
RECURSIVE DecodeIgnore(_)
DecodeIgnore(payload) ==
    IF payload = <<>> THEN <<>>
    ELSE (IF Head(payload) = "?" THEN <<>> ELSE <<Head(payload)>>) \o DecodeIgnore(Tail(payload))

\* _decode_part_content(part, part_type): None for an empty payload.
_decode_part_content(part) ==
    IF part.payload = <<>> THEN None ELSE Some(DecodeIgnore(part.payload))

\* is_attachment of _return_body_mail
IsAttachmentPart(part) ==
    \/ part.disposition = "attachment"
    \/ TextTruthy(part.filename)
    \/ /\ part.content_type[1] \notin {"text", "multipart"}
       /\ part.payload # <<>>
       /\ Len(part.payload) > AttachMinLen

\* A variant of BodyChoice that prefers the HTML body.
BodyChoiceHtmlFirst(plain_text_body, html_body) ==
    IF TextTruthy(html_body) THEN html_body ELSE plain_text_body

\* body = plain_text_body or html_body
BodyChoice(plain_text_body, html_body) ==
    IF TextTruthy(plain_text_body) THEN plain_text_body ELSE html_body

\* The loop of _return_body_mail over email_message.walk(), from the locals
\* (plain_text_body, html_body, attachments_list, of which the length is kept).
RECURSIVE WalkParts(_, _, _, _)
WalkParts(parts, plain_text_body, html_body, attachments) ==
    IF parts = <<>>
    THEN [plain_text_body |-> plain_text_body, html_body |-> html_body,
          attachments |-> attachments]
    ELSE LET part == Head(parts)
         IN  IF IsAttachmentPart(part)
             THEN WalkParts(Tail(parts), plain_text_body, html_body,
                            IF /\ _is_allowed_attachment(Some(decode_filename(part.filename)),
                                                         part.content_type)
                               /\ part.payload # <<>>
                            THEN attachments + 1 ELSE attachments)
             ELSE IF part.content_type = TextPlain /\ ~TextTruthy(plain_text_body)
             THEN WalkParts(Tail(parts), _decode_part_content(part), html_body, attachments)
             ELSE IF part.content_type = TextHtml /\ ~TextTruthy(html_body)
             THEN WalkParts(Tail(parts), plain_text_body, _decode_part_content(part), attachments)
             ELSE WalkParts(Tail(parts), plain_text_body, html_body, attachments)

\* The container that email_message.walk() yields first for a multipart message.
RootPart ==
    [content_type |-> MultipartMixed, disposition |-> "", filename |-> None, payload |-> <<>>]
Walk(msg) == <<RootPart>> \o msg.parts

\* _return_body_mail up to the call of extract_email_body_universal_mode: the
\* body it passes and the number of attachments it kept.
_return_body_mail(msg) ==
    IF msg.multipart
    THEN LET w == WalkParts(Walk(msg), None, None, 0)
         IN  [body |-> BodyChoice(w.plain_text_body, w.html_body),
              attachments |-> w.attachments]
    ELSE [body |-> _decode_part_content(msg.parts[1]), attachments |-> 0]

TextPayloads == {<<>>, <<"?">>, <<"a">>, <<"b", "?">>}
LongPayload == [i \in 1..(AttachMinLen + 1) |-> "a"]
TextParts ==
    [content_type : {TextPlain, TextHtml},
     disposition : {"", "attachment"},
     filename : {None},
     payload : TextPayloads]
      \cup [content_type : {TextPlain}, disposition : {""},
            filename : {Some(<<"note", ".", "txt">>)}, payload : {<<"a">>}]
FileParts ==
    [content_type : {ApplicationPdf}, disposition : {""}, filename : {None},
     payload : {<<"a">>, LongPayload}]
Parts == TextParts \cup FileParts
Messages ==
    [multipart : {TRUE}, parts : UNION { [1..n -> Parts] : n \in 1..MaxParts }]
      \cup [multipart : {FALSE}, parts : { <<p>> : p \in TextParts }]

BodyInit ==
    /\ bm_msg \in Messages
    /\ bm_result = None

ReturnBodyMail ==
    /\ IsNone(bm_result)
    /\ bm_result' = Some(_return_body_mail(bm_msg))
    /\ UNCHANGED <<bm_msg, parseVars, allowedVars, extractVars, OthersThanMail>>

\* The file names and content types _is_allowed_attachment is called with.
NamePieces == {".", "a", "pdf", "PDF", "exe"}
FileNames == UNION { [1..n -> NamePieces] : n \in 0..MaxNameLen }
ContentTypes ==
    {ApplicationPdf, OctetStream, TextPlain, <<"image", "png">>,
     <<"application", "vnd.ms-excel">>}

AllowedInit ==
    /\ aa_filename \in {None} \cup { Some(n) : n \in FileNames }
    /\ aa_content_type \in ContentTypes
    /\ aa_result = None

IsAllowedAttachment ==
    /\ IsNone(aa_result)
    /\ aa_result' = Some(_is_allowed_attachment(aa_filename, aa_content_type))
    /\ UNCHANGED <<aa_filename, aa_content_type, parseVars, bodyVars, extractVars,
                   OthersThanMail>>

NextAllowed == IsAllowedAttachment

\* Bound: the lines of an email body.
MaxLines == 3

\* The lines of the text of a body, after the HTML is taken out.
BodyLines ==
    {"", "   ", "hello", "  thanks  ", "> quoted", "----", "-----", "  ------",
     "From: a@x.ru", "12.05.2024, 10:30 Ivan:",
     "On Mon, Jan 5, 2025 at 10:30 AM Ivan wrote:"}

\* line.strip()
Strip(line) ==
    CASE line = "   " -> ""
      [] line = "  thanks  " -> "thanks"
      [] line = "  ------" -> "------"
      [] OTHER -> line

\* line.startswith(">")
StartsWithQuote(line) == line \in {"> quoted"}

\* A variant of QuoteDelimiter without the pattern of the date and time.
QuoteDelimiterNoDate(line) ==
    \/ line \in {"-----", "------"}
    \/ line \in {"From: a@x.ru"}
    \/ line \in {"On Mon, Jan 5, 2025 at 10:30 AM Ivan wrote:"}

\* The four re.match tests that set skip_mode, on a stripped line: dashes,
\* a header of a forwarded message, the date and time of a reply, and
\* "On ... wrote:".
QuoteDelimiter(line) ==
    \/ line \in {"-----", "------"}
    \/ line \in {"From: a@x.ru"}
    \/ line \in {"12.05.2024, 10:30 Ivan:"}
    \/ line \in {"On Mon, Jan 5, 2025 at 10:30 AM Ivan wrote:"}

\* for line in lines of extract_email_body_universal_mode, from the locals
\* filtered_lines and skip_mode.
RECURSIVE FilterLines(_, _, _)
FilterLines(lines, filtered_lines, skip_mode) ==
    IF lines = <<>> THEN filtered_lines
    ELSE LET line == Strip(Head(lines))
         IN  IF line = "" THEN FilterLines(Tail(lines), filtered_lines, skip_mode)
             ELSE IF line \in {"-----", "------"}
             THEN FilterLines(Tail(lines), filtered_lines, TRUE)
             ELSE IF StartsWithQuote(line)
             THEN FilterLines(Tail(lines), filtered_lines, skip_mode)
             ELSE IF QuoteDelimiter(line)
             THEN FilterLines(Tail(lines), filtered_lines, TRUE)
             ELSE IF ~skip_mode
             THEN FilterLines(Tail(lines), Append(filtered_lines, line), skip_mode)
             ELSE FilterLines(Tail(lines), filtered_lines, skip_mode)

ExtractInit ==
    /\ eb_body \in UNION { [1..n -> BodyLines] : n \in 0..MaxLines }
    /\ eb_result = None

\* extract_email_body_universal_mode(email_body): the lines of the result.
ExtractEmailBody ==
    /\ IsNone(eb_result)
    /\ eb_result' = Some(FilterLines(eb_body, <<>>, FALSE))
    /\ UNCHANGED <<eb_body, parseVars, bodyVars, allowedVars, OthersThanMail>>

NextExtract == ExtractEmailBody

ParseIdle == pm_msg = None /\ pm_filter = None /\ pm_result = None
BodyIdle == bm_msg = None /\ bm_result = None
AllowedIdle == aa_filename = None /\ aa_content_type = None /\ aa_result = None
ExtractIdle == eb_body = None /\ eb_result = None

MailIdle == ParseIdle /\ BodyIdle /\ AllowedIdle /\ ExtractIdle

NextBody == ReturnBodyMail


(***************************************************************************)
(* The specifications                                                      *)
(***************************************************************************)

NextBitrix == GetAllPagesStep

InitBitrix == BitrixInit /\ ScannerIdle /\ RetryIdle /\ MailIdle /\ ExplorerIdle /\ GeminiIdle /\ GoogleIdle /\ SendIdle

SpecBitrix == InitBitrix /\ [][NextBitrix]_vars

InitFind == FindInit /\ CacheIdle /\ ScannerIdle /\ RetryIdle /\ MailIdle /\ GeminiIdle /\ GoogleIdle /\ SendIdle

SpecFind == InitFind /\ [][NextFind]_vars

InitCache == CacheInit /\ FindIdle /\ BitrixIdle /\ ScannerIdle /\ RetryIdle /\ MailIdle /\ GeminiIdle /\ GoogleIdle /\ SendIdle

SpecCache == InitCache /\ [][NextCache]_vars

InitScanner == ScannerInit /\ BitrixIdle /\ RetryIdle /\ MailIdle /\ ExplorerIdle /\ GeminiIdle /\ GoogleIdle /\ SendIdle

SpecScanner == InitScanner /\ [][NextScanner]_vars

SpecScan == InitScanner /\ [][NextScan]_vars

InitRetry == RetryInit /\ BitrixIdle /\ ScannerIdle /\ MailIdle /\ ExplorerIdle /\ GeminiIdle /\ GoogleIdle /\ SendIdle

SpecRetry == InitRetry /\ [][NextRetry]_vars

InitGemini == GeminiInit /\ BitrixIdle /\ ScannerIdle /\ RetryIdle /\ MailIdle /\ ExplorerIdle /\ GoogleIdle /\ SendIdle

SpecGemini == InitGemini /\ [][NextGemini]_vars

InitGoogle == GoogleInit /\ BitrixIdle /\ ScannerIdle /\ RetryIdle /\ MailIdle /\ ExplorerIdle /\ GeminiIdle /\ SendIdle

SpecGoogle == InitGoogle /\ [][NextGoogle]_vars

InitSend == SendInit /\ BitrixIdle /\ ScannerIdle /\ RetryIdle /\ MailIdle /\ ExplorerIdle /\ GeminiIdle /\ GoogleIdle

SpecSend == InitSend /\ [][NextSend]_vars

InitParse == ParseInit /\ BodyIdle /\ AllowedIdle /\ ExtractIdle
                 /\ BitrixIdle /\ ScannerIdle /\ RetryIdle /\ ExplorerIdle /\ GeminiIdle /\ GoogleIdle /\ SendIdle

SpecParse == InitParse /\ [][NextParse]_vars

InitBody == BodyInit /\ ParseIdle /\ AllowedIdle /\ ExtractIdle
                /\ BitrixIdle /\ ScannerIdle /\ RetryIdle /\ ExplorerIdle /\ GeminiIdle /\ GoogleIdle /\ SendIdle

SpecBody == InitBody /\ [][NextBody]_vars

InitAllowed == AllowedInit /\ ParseIdle /\ BodyIdle /\ ExtractIdle
                   /\ BitrixIdle /\ ScannerIdle /\ RetryIdle /\ ExplorerIdle /\ GeminiIdle /\ GoogleIdle /\ SendIdle

SpecAllowed == InitAllowed /\ [][NextAllowed]_vars

InitExtract == ExtractInit /\ ParseIdle /\ BodyIdle /\ AllowedIdle
                   /\ BitrixIdle /\ ScannerIdle /\ RetryIdle /\ ExplorerIdle /\ GeminiIdle /\ GoogleIdle /\ SendIdle

SpecExtract == InitExtract /\ [][NextExtract]_vars

(***************************************************************************)
(* The claims                                                              *)
(***************************************************************************)

\* The outcome of the method that returned last, when it is method fn.
Returned(fn) == IF Truthy(sc_result) /\ sc_result[1].fn = fn THEN {sc_result[1]} ELSE {}

\* C1: get_all_pages returns the concatenation, in page order, of the items
\* of every page of the listing, whatever page requests fail after their
\* retries.
C1_AllPagesReturned ==
    gp_pc = "done" => gp_ret = Some(Concat(pages))

Posts == Events(b24_log, "post")

\* C6: a _b24_request call issues at most 3 POSTs, returns the parsed JSON of
\* the first POST that succeeds (no POST follows it), and returns None without
\* raising when all 3 fail.
C6_B24Request ==
    /\ Len(Posts) <= 3
    /\ ~b24_raised
    /\ \A i \in 1..Len(Posts) :
         Posts[i].outcome = "ok" =>
           /\ i = Len(Posts)
           /\ b24_ret = b24_served
           /\ Truthy(b24_ret)
    /\ (Truthy(b24_served) /\ \A i \in 1..Len(Posts) : Posts[i].outcome # "ok") =>
           /\ Len(Posts) = 3
           /\ IsNone(b24_ret)

C6_Witness ==
    /\ Len(Posts) = 3
    /\ Posts[1].outcome = "HTTPError"
    /\ Posts[2].outcome = "ValueError"
    /\ Posts[3].outcome = "ok"
    /\ Truthy(b24_ret)

\* The seconds slept between the i-th POST of the call and the next one.
RECURSIVE SleptFrom(_, _)
SleptFrom(log, k) ==
    IF k > Len(log) \/ log[k].ev # "sleep" THEN 0
    ELSE log[k].secs + SleptFrom(log, k + 1)
RECURSIVE IndexOfPost(_, _, _)
IndexOfPost(log, i, k) ==
    IF log[k].ev = "post"
    THEN IF i = 1 THEN k ELSE IndexOfPost(log, i - 1, k + 1)
    ELSE IndexOfPost(log, i, k + 1)
WaitAfterPost(i) == SleptFrom(b24_log, IndexOfPost(b24_log, i, 1) + 1)

\* C7 as stated: the wait before the third attempt is strictly longer than
\* the wait before the second attempt, for every kind of failure.
C7_Backoff ==
    Len(Posts) >= 3 => WaitAfterPost(2) > WaitAfterPost(1)

\* C7 as amended: the wait after a failed POST does not depend on the number
\* of the attempt: it is 2 seconds after a requests exception and none after
\* any other exception, so the wait before the third attempt is never longer
\* than the wait before the second when both failures are of the same kind.
C7_FixedDelay ==
    \A i \in 1..Len(Posts) :
      Posts[i].outcome # "ok" =>
        WaitAfterPost(i) = (IF Posts[i].outcome \in {"ConnectionError", "HTTPError", "Timeout"}
                            THEN 2 ELSE 0)

C7_Witness ==
    /\ Len(Posts) = 3
    /\ Posts[1].outcome = "ConnectionError"
    /\ Posts[2].outcome = "ConnectionError"
    /\ WaitAfterPost(1) = 2
    /\ WaitAfterPost(2) = 2

Invocations(r) == Events(r.log, "invoke")

\* C2: a _safe_operation call invokes the operation at most 3 times, returns
\* the result of the first invocation that does not raise, and raises when no
\* invocation succeeded (also when no invocation was made because every
\* reconnect failed).
C2_SafeOperation ==
    \A r \in Returned("_safe_operation") :
      LET inv == Invocations(r)
      IN  /\ Len(inv) <= 3
          /\ r.kind \in {"return", "raise"}
          /\ r.kind = "return" =>
               /\ Len(inv) >= 1
               /\ inv[Len(inv)].res = "ok"
               /\ inv[Len(inv)].val = r.val
          /\ \A i \in 1..Len(inv) : inv[i].res = "ok" => (i = Len(inv) /\ r.kind = "return")

\* Every attempt's reconnect failed: the call raised without ever invoking
\* the operation.
C2_Witness ==
    \E r \in Returned("_safe_operation") :
      /\ r.kind = "raise"
      /\ Invocations(r) = <<>>
      /\ r.val = "Exception"

\* C3: a connect_to_account call makes at most 3 connection attempts, returns
\* True exactly when some attempt's login answered OK (that attempt is its
\* last, and last_activity is set on it), and returns False without raising
\* when all attempts fail.
C3_ConnectResult ==
    \A r \in Returned("connect_to_account") :
      LET ok == { i \in 1..Len(r.log) : r.log[i].ev = "login" /\ r.log[i].res = "OK" }
      IN  /\ Len(Events(r.log, "IMAP4_SSL")) <= 3
          /\ r.kind = "return"
          /\ r.val \in {"True", "False"}
          /\ r.val = "True" <=> ok # {}
          /\ ok \subseteq {Len(r.log)}

C3_ConnectAction ==
    (/\ Returned("connect_to_account")' # {}
     /\ sc_result' # sc_result
     /\ sc_result'[1].val = "True") => (last_activity' = Fresh /\ Truthy(imap_client'))

C3_Connect == [](C3_ConnectResult) /\ [][C3_ConnectAction]_vars

\* The third attempt's login answers OK after two failed attempts.
C3_Witness ==
    \E r \in Returned("connect_to_account") :
      /\ r.val = "True"
      /\ Len(Events(r.log, "IMAP4_SSL")) = 3
      /\ last_activity = Fresh

\* C4: scan_messages searches each scanned folder with the criteria passed by
\* the caller, and with SINCE "<last_date>" when the caller passes none.
C4_SearchCriteria ==
    \A i \in 1..Len(searches) :
      searches[i].criteria = (IF IsNone(scan_args[1].search_criteria)
                              THEN <<"SINCE", last_date>>
                              ELSE scan_args[1].search_criteria[1])

\* C9: after close_connection, and after the with-block has exited, the
\* client is None whatever logout did; a close_connection that finds no client
\* changes nothing and calls nothing; __enter__ returns the scanner only when a
\* login answered OK, and raises otherwise.
C9_ClosedState ==
    /\ \A r \in Returned("close_connection") \cup Returned("__exit__") :
         Idle => IsNone(imap_client)
    /\ \A r \in Returned("__enter__") :
         /\ r.kind \in {"return", "raise"}
         /\ r.kind = "return" <=>
              \E i \in 1..Len(r.log) : r.log[i].ev = "login" /\ r.log[i].res = "OK"

C9_SecondClose ==
    (/\ Idle /\ Idle'
     /\ IsNone(imap_client)
     /\ sc_result' # sc_result
     /\ Returned("close_connection")' # {})
    => (/\ IsNone(imap_client')
        /\ last_activity' = last_activity
        /\ sc_result'[1].kind = "return"
        /\ sc_result'[1].log = <<>>)

C9_Closed == [](C9_ClosedState) /\ [][C9_SecondClose]_vars

\* The with-block exits by an exception and logout raises an exception that
\* _safe_close does not catch.
C9_Witness ==
    \E r \in Returned("__exit__") :
      /\ r.kind = "raise"
      /\ r.log = <<Ev("with", "exception"), Ev("logout", "IMAP4.error")>>
      /\ IsNone(imap_client)


\* C5: parse_email_message returns None exactly when date_filter is not None
\* and the Date of the message is strictly earlier than date_filter; every
\* other message, one without a Date or with a Date that is no date included,
\* gives the record or the ValueError of its recipients or sender, and never
\* an error of the comparison of the dates.
EarlierThanFilter ==
    /\ Truthy(pm_filter)
    /\ Truthy(pm_msg.date)
    /\ pm_msg.date[1].rfc2822
    /\ pm_msg.date[1].instant < pm_filter[1]

C5_DateFilter ==
    Truthy(pm_result) =>
        /\ (pm_result[1] = [kind |-> "return", val |-> "None"]) <=> EarlierThanFilter
        /\ ~EarlierThanFilter =>
               pm_result[1] \in {[kind |-> "return", val |-> "record"], Raise("ValueError")}

\* C8: a decorated function that raises a network error on its first k calls,
\* k < max_retries, and then succeeds is called k + 1 times and its result is
\* returned; when all max_retries calls raise a network error, the last of
\* them is raised.
FailsThenSucceeds(k) ==
    /\ k < rt_max
    /\ \A i \in 1..k : rt_script[i] \in RetriedErrors
    /\ rt_script[k + 1] = "ok"

C8_Retry ==
    (rt_pc = "done" /\ Truthy(rt_result)) =>
        /\ \A k \in 0..(rt_max - 1) :
               FailsThenSucceeds(k) =>
                   /\ rt_calls = k + 1
                   /\ rt_result[1] = [kind |-> "return", val |-> "result"]
        /\ (\A i \in 1..rt_max : rt_script[i] \in RetriedErrors) =>
               rt_result[1] = [kind |-> "raise", val |-> rt_script[rt_max]]

\* C10: for a multipart message the body is the text of the first text/plain
\* part that is not an attachment and whose text is not empty, wherever that
\* part stands; the body comes from a text/html part only when there is no
\* such text/plain part, and is then the text of the first text/html part that
\* is not an attachment and whose text is not empty; without either, the body
\* is empty.
BodySources(content_type) ==
    { i \in 1..Len(bm_msg.parts) :
        /\ bm_msg.parts[i].content_type = content_type
        /\ bm_msg.parts[i].disposition # "attachment"
        /\ IsNone(bm_msg.parts[i].filename)
        /\ DecodeIgnore(bm_msg.parts[i].payload) # <<>> }

FirstOf(S) == CHOOSE i \in S : \A j \in S : i <= j

TextOf(i) == Some(DecodeIgnore(bm_msg.parts[i].payload))

C10_BodyPriority ==
    (Truthy(bm_result) /\ bm_msg.multipart) =>
        LET plain == BodySources(TextPlain)
            html == BodySources(TextHtml)
            body == bm_result[1].body
        IN  /\ plain # {} => body = TextOf(FirstOf(plain))
            /\ (plain = {} /\ html # {}) => body = TextOf(FirstOf(html))
            /\ (plain = {} /\ html = {}) => ~TextTruthy(body)

\* A message whose first text/plain part with text stands behind a text/html
\* part with text and behind an empty text/plain part, and the plain text is
\* the body.
C10_Witness ==
    /\ Truthy(bm_result)
    /\ bm_msg.multipart
    /\ BodySources(TextPlain) # {}
    /\ \E h \in BodySources(TextHtml) : h < FirstOf(BodySources(TextPlain))
    /\ \E e \in 1..Len(bm_msg.parts) :
           /\ e < FirstOf(BodySources(TextPlain))
           /\ bm_msg.parts[e].content_type = TextPlain
           /\ bm_msg.parts[e].disposition = ""
           /\ DecodeIgnore(bm_msg.parts[e].payload) = <<>>
    /\ bm_result[1].body = TextOf(FirstOf(BodySources(TextPlain)))


\* C11: _is_allowed_attachment accepts a (filename, content_type) pair only
\* when the content type is in the allow-list and, for
\* application/octet-stream, the file name ends in one of the allowed
\* extensions; application/octet-stream with an empty or missing file name is
\* rejected.
AllowedExtension(filename) ==
    /\ TextTruthy(filename)
    /\ Len(filename[1]) >= 2
    /\ filename[1][Len(filename[1]) - 1] = "."
    /\ filename[1][Len(filename[1])] \in {"pdf", "PDF"}
    /\ \E j \in 1..(Len(filename[1]) - 2) : filename[1][j] # "."

C11_AllowedOnly ==
    Truthy(aa_result) =>
        (aa_result[1] = TRUE <=>
            /\ aa_content_type \in ALLOWED_MIME_TYPES
            /\ aa_content_type = OctetStream => AllowedExtension(aa_filename))


\* C12: find(limit=n) with n >= 1 returns min(n, number of matching
\* entities) items, and find(limit=None) returns the entities of all pages.
C12_FindCount ==
    (fd_pc = "done" /\ Truthy(fd_ret)) =>
        LET matching == Concat(pages)
        IN  IF Truthy(fd_limit) /\ fd_limit[1] >= 1
            THEN Len(fd_ret[1]) = (IF fd_limit[1] < Len(matching)
                                   THEN fd_limit[1] ELSE Len(matching))
            ELSE IsNone(fd_limit) => fd_ret[1] = matching


\* C13: between two clear_cache() calls the loader of a key runs at most
\* once: a call for a key that was loaded since the last clear_cache() makes
\* no query and returns the value of that first load, and a call for a key
\* that was not loaded since then, the first call after clear_cache()
\* included, runs the loader.
C13_LoadedOnce ==
    /\ \A k \in DOMAIN ex_loads : ex_loads[k] <= 1
    /\ Truthy(ex_call) =>
          /\ ex_call[1].loaded_before =>
                 /\ ex_call[1].queries = 0
                 /\ Some(ex_call[1].ret) = ex_first[ex_call[1].key]
          /\ ~ex_call[1].loaded_before =>
                 /\ ex_call[1].queries >= 1
                 /\ ex_loads[ex_call[1].key] = 1
                 /\ Some(ex_call[1].ret) = ex_first[ex_call[1].key]

\* A repeated call for a key whose status list changed on the server after
\* the first load, returning the value loaded first.
C13_Witness ==
    /\ Truthy(ex_call)
    /\ ex_call[1].key = "deal_stages_1"
    /\ ex_call[1].loaded_before
    /\ ex_call[1].ret = {<<"New", "N">>}
    /\ status_lists["DEAL_STAGE_1"] = <<>>
    /\ status_lists["DEAL_STAGE"] # <<[NAME |-> "New", STATUS_ID |-> "N"]>>


\* C14: generate_content never raises: it returns a dict with the key
\* "success", after at most max_attempts calls of the model, and the dict has
\* success = True only when the response has a text that is not empty and,
\* unless json_return is False, the text parses as JSON.
C14_NeverRaises ==
    /\ gm_calls <= gm_max
    /\ gm_pc = "done" =>
          /\ Truthy(gm_result)
          /\ "success" \in DOMAIN gm_result[1]
          /\ gm_result[1].success =>
                 /\ gm_last[1] \in ResponseTexts \ {""}
                 /\ gm_json_return # "False" =>
                        gm_last[1] \in {"json", "fenced json", "python literals"}

\* The last attempt fails with an error that the handler raises again, and
\* the call still returns a dict.
C14_Witness ==
    /\ gm_pc = "done"
    /\ gm_max = MaxAttemptsArg
    /\ gm_calls = gm_max
    /\ gm_last = Some("500")
    /\ gm_result = Some([success |-> FALSE, error |-> "500"])


\* C15: every service built by create_docs_service, create_drive_service or
\* create_sheet_service and not closed yet is in _services; close_all_services
\* calls close() on each of them, also when the close() of some of them
\* raises, and leaves _services empty, so that no built service stays
\* unclosed after the exit of the with-block.
C15_AllClosed ==
    /\ ga_open = { ga_services[i] : i \in 1..Len(ga_services) }
    /\ ga_last \in {"close", "exit"} => ga_services = <<>> /\ ga_open = {}
    /\ ga_with = "exited" => ga_last = "exit" /\ ga_open = {}
    /\ ga_last # "raised"

\* The with-block exits with three services of which the first raises in
\* close(), and the two others were closed after it.
C15_Witness ==
    /\ ga_last = "exit"
    /\ Len(ga_closes) = MaxServices
    /\ ga_closes[1].raised
    /\ ~ga_closes[2].raised
    /\ ga_open = {}
    /\ ga_services = <<>>


\* C16: sending_main calls send_tracked_email once for every entry of
\* TARGET_EMAILS, in order: when it ends, each target has had its attempt,
\* whichever of these failed for the targets before it: SMTP refused the
\* message, the document was not in the database, the attachment was not
\* attached, the message was not built.
ListedFailures ==
    \A i \in 1..Len(sm_attempts) :
        sm_attempts[i].ret \notin {"raise ValueError: password", "raise Exception"}

C16_EveryTarget ==
    (sm_pc \in {"done", "raised"} /\ ListedFailures) =>
        /\ Len(sm_attempts) = sm_targets
        /\ \A i \in 1..Len(sm_attempts) : sm_attempts[i].target = i

\* C17: when DOC_ID is set, send_msg is called only on a message that the
\* document was attached to.
C17_SentWithAttachment ==
    Truthy(sm_doc_id) =>
        \A i \in 1..Len(sm_attempts) :
            sm_attempts[i].send_msg => sm_attempts[i].attached


\* C18: the result of extract_email_body_universal_mode holds, in their
\* order, the lines that stand before the first quote delimiter and are
\* neither blank nor begin with ">"; no line from the first delimiter on is
\* in it.
DelimiterLines ==
    {"-----", "  ------", "From: a@x.ru", "12.05.2024, 10:30 Ivan:",
     "On Mon, Jan 5, 2025 at 10:30 AM Ivan wrote:"}

FirstDelimiter ==
    LET at == { i \in 1..Len(eb_body) : eb_body[i] \in DelimiterLines }
    IN  IF at = {} THEN Len(eb_body) + 1 ELSE CHOOSE i \in at : \A j \in at : i <= j

RECURSIVE KeptLines(_, _)
KeptLines(i, upto) ==
    IF i >= upto THEN <<>>
    ELSE (IF eb_body[i] \in {"", "   ", "> quoted"} THEN <<>>
          ELSE <<IF eb_body[i] = "  thanks  " THEN "thanks" ELSE eb_body[i]>>)
         \o KeptLines(i + 1, upto)

====
